---------------------------- MODULE Spec2Model ----------------------------
(***************************************************************************)
(* A model of the pixel kernels of packages/wasm-camera-fx/cpp/effects.cpp *)
(*                                                                         *)
(* A raster is a function from the flat pixel index y*width+x to a pixel   *)
(* record [r, g, b, a] of bytes.  The host keeps the frame it supplied     *)
(* (frame); imageData is the buffer handed to a kernel as its (first)      *)
(* raster and outputData the second buffer of the two-buffer kernels.      *)
(*                                                                         *)
(* Arithmetic.  The kernels compute in IEEE-754 binary64.                  *)
(*  - The luminance 0.299*R + 0.587*G + 0.114*B is evaluated bit-exactly:  *)
(*    every intermediate value is a multiple of 2^-56 below 2^8, held as   *)
(*    three limbs of 22 bits, and each product and sum is rounded to 53    *)
(*    significant bits, ties to even.                                      *)
(*  - Values that are exact in binary64 (small integers, dyadic            *)
(*    parameters) are computed as exact rationals.                         *)
(*  - The HSL conversions are computed as exact rationals, and the final   *)
(*    truncation value*255 -> byte is the SET of bytes the rounding error  *)
(*    of the preceding operations allows (k-1 or k when the exact value    *)
(*    is the integer k).                                                   *)
(*  - Sampling coordinates are fixed-point, in thousandths of a pixel.     *)
(***************************************************************************)
EXTENDS Integers, Sequences, FiniteSets

VARIABLES
    width, height,  \* dimensions of the rasters
    frame,          \* the raster as the host supplied it
    imageData,      \* first buffer: in-place raster / inputData
    outputData,     \* second buffer: outputData of a two-buffer kernel
    writes,         \* per pixel, writes to the output during the last call
    past,           \* memory lying behind imageData (pixels w*h ..)
    op,             \* the kernel that ran last
    res             \* scalar results of the last helper call

vars == <<width, height, frame, imageData, outputData, writes, past, op, res>>

-----------------------------------------------------------------------------
(* Bounds of the model *)

\* largest raster width and height
MaxDim == 4

\* number of evenly spaced channel levels sampled between 0 and 255
Levels == 6

-----------------------------------------------------------------------------
(* Bytes and pixels *)

Byte == 0..255

Pixel(r, g, b, a) == [r |-> r, g |-> g, b |-> b, a |-> a]

Min2(a, b) == IF b < a THEN b ELSE a
Max2(a, b) == IF a < b THEN b ELSE a

\* flat pixel index of (x, y)
Idx(x, y, w) == y * w + x

PixelIdx(w, h) == 0..(w * h - 1)

-----------------------------------------------------------------------------
(* binary64 values in [0, 2^8) as multiples of 2^-56: <<l0, l1, l2>> is     *)
(* l0 + l1*2^22 + l2*2^44                                                  *)

Limb == 4194304

RECURSIVE Pow2(_)
Pow2(n) == IF n = 0 THEN 1 ELSE 2 * Pow2(n - 1)

RECURSIVE BitLen(_)
BitLen(n) == IF n = 0 THEN 0 ELSE 1 + BitLen(n \div 2)

FxBitLen(a) ==
    IF a[3] > 0 THEN 44 + BitLen(a[3])
    ELSE IF a[2] > 0 THEN 22 + BitLen(a[2])
    ELSE BitLen(a[1])

FxAddExact(a, b) ==
    LET s0 == a[1] + b[1]
        s1 == a[2] + b[2] + (s0 \div Limb)
        s2 == a[3] + b[3] + (s1 \div Limb)
    IN  <<s0 % Limb, s1 % Limb, s2>>

FxMulByteExact(a, k) ==
    LET p0 == a[1] * k
        p1 == a[2] * k + (p0 \div Limb)
        p2 == a[3] * k + (p1 \div Limb)
    IN  <<p0 % Limb, p1 % Limb, p2>>

\* round to 53 significant bits, ties to even
FxRound(a) ==
    LET s == FxBitLen(a) - 53 IN
    IF s <= 0 THEN a
    ELSE LET q    == Pow2(s)
             rem  == a[1] % q
             half == q \div 2
             lsb  == (a[1] \div q) % 2
             down == <<a[1] - rem, a[2], a[3]>>
         IN  IF rem > half \/ (rem = half /\ lsb = 1)
             THEN FxAddExact(down, <<q, 0, 0>>)
             ELSE down

FxMul(a, k) == FxRound(FxMulByteExact(a, k))
FxAdd(a, b) == FxRound(FxAddExact(a, b))

\* static_cast<uint8_t>: the integer part
FxTrunc(a) == a[3] \div 4096

\* the binary64 values of the literals 0.299, 0.587 and 0.114
LumaR == <<67108, 2952790, 1224>>
LumaG == <<33552, 1476395, 2404>>
LumaB == <<4093641, 3959422, 466>>

\* static_cast<uint8_t>(0.299 * r + 0.587 * g + 0.114 * b), left to right
Luma(r, g, b) ==
    FxTrunc(FxAdd(FxAdd(FxMul(LumaR, r), FxMul(LumaG, g)), FxMul(LumaB, b)))

-----------------------------------------------------------------------------
(* grayscale: in place *)

\* a grayscale that stores the grey value in all four channels
grayPixelAll(p) ==
    LET gray == Luma(p.r, p.g, p.b) IN Pixel(gray, gray, gray, gray)

grayPixel(p) ==
    LET gray == Luma(p.r, p.g, p.b) IN Pixel(gray, gray, gray, p.a)

Grayscale(img) == [i \in DOMAIN img |-> grayPixel(img[i])]


-----------------------------------------------------------------------------
(* Exact rationals [n, d], d > 0, in lowest terms *)

Abs(x) == IF x < 0 THEN -x ELSE x

RECURSIVE Gcd(_, _)
Gcd(a, b) == IF b = 0 THEN a ELSE Gcd(b, a % b)

Rat(n, d) ==
    LET g == Gcd(Abs(n), Abs(d))
        s == IF d < 0 THEN -1 ELSE 1
    IN  [n |-> s * (n \div g), d |-> s * (d \div g)]

RInt(k) == [n |-> k, d |-> 1]

RAdd(a, b) ==
    LET g == Gcd(a.d, b.d)
    IN  Rat(a.n * (b.d \div g) + b.n * (a.d \div g), a.d * (b.d \div g))

RNeg(a) == [n |-> -a.n, d |-> a.d]
RSub(a, b) == RAdd(a, RNeg(b))

RMul(a, b) ==
    LET x == Rat(a.n, b.d)
        y == Rat(b.n, a.d)
    IN  Rat(x.n * y.n, x.d * y.d)

RDiv(a, b) == RMul(a, Rat(b.d, b.n))

RLt(a, b) == a.n * b.d < b.n * a.d

\* floor, for a >= 0 the truncation of static_cast
RFloor(a) == a.n \div a.d

\* std::min(a, b) and std::max(a, b)
RMin(a, b) == IF RLt(b, a) THEN b ELSE a
RMax(a, b) == IF RLt(a, b) THEN b ELSE a

\* static_cast<uint8_t>(x) of a value x >= 0 that was computed with rounding
\* error.  The error is far smaller than the distance of a non-integer x of
\* the model to the next integer, so only an exact integer can fall either
\* way: dn = 1 when the computed value fell just below it.
TruncErr(x, dn) ==
    IF x.d = 1 /\ x.n >= 1 THEN x.n - dn
    ELSE Max2(0, RFloor(x))

\* the directions the rounding error of the three channels can take
ErrDirs == [1..3 -> {0, 1}]

-----------------------------------------------------------------------------
(* clamp *)

\* static_cast<uint8_t>(std::max(0.0, std::min(255.0, val)))
clamp(val) == RFloor(RMax(RInt(0), RMin(RInt(255), val)))

-----------------------------------------------------------------------------
(* Colour model conversion *)

RMax3(a, b, c) == RMax(RMax(a, b), c)
RMin3(a, b, c) == RMin(RMin(a, b), c)

\* rgbToHsl without the branch for light colours (l > 0.5)
rgbToHslDarkOnly(r, g, b) ==
    LET rd  == Rat(r, 255)
        gd  == Rat(g, 255)
        bd  == Rat(b, 255)
        max == RMax3(rd, gd, bd)
        min == RMin3(rd, gd, bd)
        l   == RDiv(RAdd(max, min), RInt(2))
    IN  IF max = min
        THEN [h |-> RInt(0), s |-> RInt(0), l |-> l]
        ELSE LET d == RSub(max, min)
                 s == RDiv(d, RAdd(max, min))
                 h == IF max = rd
                      THEN RAdd(RDiv(RSub(gd, bd), d),
                                IF RLt(gd, bd) THEN RInt(6) ELSE RInt(0))
                      ELSE IF max = gd
                      THEN RAdd(RDiv(RSub(bd, rd), d), RInt(2))
                      ELSE RAdd(RDiv(RSub(rd, gd), d), RInt(4))
             IN  [h |-> RMul(RDiv(h, RInt(6)), RInt(360)), s |-> s, l |-> l]

rgbToHsl(r, g, b) ==
    LET rd  == Rat(r, 255)
        gd  == Rat(g, 255)
        bd  == Rat(b, 255)
        max == RMax3(rd, gd, bd)
        min == RMin3(rd, gd, bd)
        l   == RDiv(RAdd(max, min), RInt(2))
    IN  IF max = min
        THEN [h |-> RInt(0), s |-> RInt(0), l |-> l]
        ELSE LET d == RSub(max, min)
                 s == IF RLt(Rat(1, 2), l)
                      THEN RDiv(d, RSub(RSub(RInt(2), max), min))
                      ELSE RDiv(d, RAdd(max, min))
                 h == IF max = rd
                      THEN RAdd(RDiv(RSub(gd, bd), d),
                                IF RLt(gd, bd) THEN RInt(6) ELSE RInt(0))
                      ELSE IF max = gd
                      THEN RAdd(RDiv(RSub(bd, rd), d), RInt(2))
                      ELSE RAdd(RDiv(RSub(rd, gd), d), RInt(4))
             IN  [h |-> RMul(RDiv(h, RInt(6)), RInt(360)), s |-> s, l |-> l]

\* the value hueToRgb multiplies out before the cast: (...) * 255.0
hueToRgbValue(p, q, t0) ==
    LET t1 == IF RLt(t0, RInt(0)) THEN RAdd(t0, RInt(1)) ELSE t0
        t  == IF RLt(RInt(1), t1) THEN RSub(t1, RInt(1)) ELSE t1
        v  == IF RLt(t, Rat(1, 6))
              THEN RAdd(p, RMul(RMul(RSub(q, p), RInt(6)), t))
              ELSE IF RLt(t, Rat(1, 2)) THEN q
              ELSE IF RLt(t, Rat(2, 3))
              THEN RAdd(p, RMul(RMul(RSub(q, p), RSub(Rat(2, 3), t)), RInt(6)))
              ELSE p
    IN  RMul(v, RInt(255))

hueToRgb(p, q, t, dn) == TruncErr(hueToRgbValue(p, q, t), dn)

\* the three values hslToRgb casts to the bytes r, g, b
hslToRgbValues(hsl) ==
    LET h == RDiv(hsl.h, RInt(360))
        s == hsl.s
        l == hsl.l
    IN  IF s = RInt(0)
        THEN LET v == RMul(l, RInt(255)) IN <<v, v, v>>
        ELSE LET q == IF RLt(l, Rat(1, 2))
                      THEN RMul(l, RAdd(RInt(1), s))
                      ELSE RSub(RAdd(l, s), RMul(l, s))
                 p == RSub(RMul(RInt(2), l), q)
             IN  << hueToRgbValue(p, q, RAdd(h, Rat(1, 3))),
                    hueToRgbValue(p, q, h),
                    hueToRgbValue(p, q, RSub(h, Rat(1, 3))) >>

\* the cast of the three values; an achromatic colour casts one value once
CastRgb(hsl, vals, dn) ==
    IF hsl.s = RInt(0)
    THEN LET v == TruncErr(vals[1], dn[1]) IN <<v, v, v>>
    ELSE <<TruncErr(vals[1], dn[1]), TruncErr(vals[2], dn[2]),
           TruncErr(vals[3], dn[3])>>

\* the bytes <<r, g, b>> written through the references; dn[c] is the
\* direction of the rounding error of channel c
hslToRgb(hsl, dn) == CastRgb(hsl, hslToRgbValues(hsl), dn)

-----------------------------------------------------------------------------
(* hueRotate: in place *)

RECURSIVE WrapUp(_)
WrapUp(h) == IF RLt(h, RInt(0)) THEN WrapUp(RAdd(h, RInt(360))) ELSE h

\* fmod(h, 360.0) for h >= 0
Fmod360(h) == RSub(h, RInt(360 * RFloor(RDiv(h, RInt(360)))))

\* the rotated HSL colour of an RGB colour
rotatedHsl(r, g, b, angleDegrees) ==
    LET hsl == rgbToHsl(r, g, b)
    IN  [h |-> Fmod360(WrapUp(RAdd(hsl.h, angleDegrees))),
         s |-> hsl.s, l |-> hsl.l]

huePixel(p, angleDegrees, dn) ==
    LET rgb == hslToRgb(rotatedHsl(p.r, p.g, p.b, angleDegrees), dn)
    IN  Pixel(rgb[1], rgb[2], rgb[3], p.a)

Colours(img) == {<<img[i].r, img[i].g, img[i].b>> : i \in DOMAIN img}

\* per colour of the raster, the rotated HSL colour and the values to cast
HueTable(img, angleDegrees) ==
    [c \in Colours(img) |->
        LET hsl == rotatedHsl(c[1], c[2], c[3], angleDegrees)
        IN  [hsl |-> hsl, vals |-> hslToRgbValues(hsl)]]

\* err[c] is the direction of the rounding errors for the colour c: equal
\* pixels take equal results
HueRotate(img, tab, err) ==
    [i \in DOMAIN img |->
        LET c   == <<img[i].r, img[i].g, img[i].b>>
            rgb == CastRgb(tab[c].hsl, tab[c].vals, err[c])
        IN  Pixel(rgb[1], rgb[2], rgb[3], img[i].a)]

\* the rasters hueRotate can leave, over the directions of the rounding errors
HueRotations(img, angleDegrees) ==
    UNION { {HueRotate(img, tab, err) : err \in [Colours(img) -> ErrDirs]} :
            tab \in {HueTable(img, angleDegrees)} }

-----------------------------------------------------------------------------
(* brightnessContrast: in place *)

bcChannel(c, brightness, contrast) ==
    LET factor           == RAdd(RInt(1), contrast)
        brightnessAdjust == RMul(brightness, RInt(255))
        v == RAdd(RInt(128), RMul(factor, RSub(RInt(c), RInt(128))))
    IN  clamp(RAdd(v, brightnessAdjust))

BrightnessContrast(img, brightness, contrast) ==
    [i \in DOMAIN img |->
        Pixel(bcChannel(img[i].r, brightness, contrast),
              bcChannel(img[i].g, brightness, contrast),
              bcChannel(img[i].b, brightness, contrast),
              img[i].a)]

-----------------------------------------------------------------------------
(* gammaCorrection: in place *)

\* floor of the square root
RECURSIVE ISqrtIn(_, _, _)
ISqrtIn(n, lo, hi) ==
    IF lo = hi THEN lo
    ELSE LET mid == (lo + hi + 1) \div 2
         IN  IF mid * mid <= n THEN ISqrtIn(n, mid, hi)
             ELSE ISqrtIn(n, lo, mid - 1)

ISqrt(n) == ISqrtIn(n, 0, 2048)

\* clamp(pow(c / 255.0, gammaInv) * 255.0), for gammaInv = 1, 2 and 1/2:
\* c, c*c/255 and sqrt(255*c)
gammaChannel(c, gamma) ==
    LET g        == RMax(Rat(1, 100), gamma)
        gammaInv == RDiv(RInt(1), g)
    IN  IF gammaInv = RInt(1) THEN clamp(RInt(c))
        ELSE IF gammaInv = RInt(2) THEN clamp(Rat(c * c, 255))
        ELSE clamp(RInt(ISqrt(255 * c)))

GammaCorrection(img, gamma) ==
    [i \in DOMAIN img |->
        Pixel(gammaChannel(img[i].r, gamma),
              gammaChannel(img[i].g, gamma),
              gammaChannel(img[i].b, gamma),
              img[i].a)]

-----------------------------------------------------------------------------
(* sobelEdgeDetection: inputData -> outputData *)

\* a horizontal kernel with one mistyped weight
gxTypo == << <<-1, 0, 1>>, <<-2, 0, 2>>, <<-1, 0, 2>> >>

gx == << <<-1, 0, 1>>, <<-2, 0, 2>>, <<-1, 0, 1>> >>
gy == << <<-1, -2, -1>>, <<0, 0, 0>>, <<1, 2, 1>> >>

Black == Pixel(0, 0, 0, 255)

Offsets == {-1, 0, 1}

\* the interior pixels in the order of the loops: y outer, x inner
\* an inner loop that stops one column early: x < width - 2
InteriorXsShort(w) == {x \in 0..(w - 1) : 1 <= x /\ x < w - 2}

InteriorXs(w) == {x \in 0..(w - 1) : 1 <= x /\ x < w - 1}
InteriorYs(h) == {y \in 0..(h - 1) : 1 <= y /\ y < h - 1}
IsInteriorLoop(x, y, w, h) == x \in InteriorXs(w) /\ y \in InteriorYs(h)

\* a border test that forgets the last column
IsBorderNoLastColumn(x, y, w, h) == y = 0 \/ y = h - 1 \/ x = 0

\* the test of the border pass
IsBorder(x, y, w, h) == y = 0 \/ y = h - 1 \/ x = 0 \/ x = w - 1

\* intensity of the pixel the kernel window reads at (x + kx, y + ky)
Intensity(src, x, y, kx, ky, w) ==
    LET p == src[Idx(x + kx, y + ky, w)] IN Luma(p.r, p.g, p.b)

\* sumX or sumY: the kernel applied to the 3x3 window around (x, y), the
\* taps in S still to be added to acc
RECURSIVE KernelSum(_, _, _, _, _, _, _)
KernelSum(kernel, src, x, y, w, S, acc) ==
    IF S = {} THEN acc
    ELSE LET k == CHOOSE e \in S : TRUE
         IN  KernelSum(kernel, src, x, y, w, S \ {k},
                       acc + kernel[k[2] + 2][k[1] + 2]
                               * Intensity(src, x, y, k[1], k[2], w))

\* the pixel the convolution writes at (x, y): src is what inputData holds
\* when the window is read
ConvPixel(src, x, y, w) ==
    LET sumX == KernelSum(gx, src, x, y, w, Offsets \X Offsets, 0)
        sumY == KernelSum(gy, src, x, y, w, Offsets \X Offsets, 0)
        \* static_cast<uint8_t>(std::min(255.0, std::sqrt(...)))
        edge == Min2(255, ISqrt(sumX * sumX + sumY * sumY))
    IN  Pixel(edge, edge, edge, src[Idx(x, y, w)].a)

\* an interior pass whose loops run from the last pixel down to the first
RECURSIVE InteriorPassDown(_, _, _, _, _)
InteriorPassDown(m, i, w, h, aliased) ==
    IF i >= w * h THEN m
    ELSE LET j == w * h - 1 - i
             x == j % w
             y == j \div w
         IN  IF ~IsInteriorLoop(x, y, w, h)
             THEN InteriorPassDown(m, i + 1, w, h, aliased)
             ELSE LET px   == ConvPixel(m.inD, x, y, w)
                      outD == [m.outD EXCEPT ![j] = px]
                  IN  InteriorPassDown(
                          [inD  |-> IF aliased THEN outD ELSE m.inD,
                           outD |-> outD,
                           wr   |-> [m.wr EXCEPT ![j].conv = @ + 1]],
                          i + 1, w, h, aliased)

\* The interior pass from pixel index i on.  m = [inD, outD, wr]: the two
\* buffers and the write counts; aliased: outputData is inputData, so that
\* a write to the one is a write to the other.
RECURSIVE InteriorPass(_, _, _, _, _)
InteriorPass(m, i, w, h, aliased) ==
    IF i >= w * h THEN m
    ELSE LET x == i % w
             y == i \div w
         IN  IF ~IsInteriorLoop(x, y, w, h)
             THEN InteriorPass(m, i + 1, w, h, aliased)
             ELSE LET px   == ConvPixel(m.inD, x, y, w)
                      outD == [m.outD EXCEPT ![i] = px]
                  IN  InteriorPass(
                          [inD  |-> IF aliased THEN outD ELSE m.inD,
                           outD |-> outD,
                           wr   |-> [m.wr EXCEPT ![i].conv = @ + 1]],
                          i + 1, w, h, aliased)

BorderPass(m, w, h, aliased) ==
    LET hit(i) == IsBorder(i % w, i \div w, w, h)
        outD   == [i \in DOMAIN m.outD |-> IF hit(i) THEN Black ELSE m.outD[i]]
    IN  [inD  |-> IF aliased THEN outD ELSE m.inD,
         outD |-> outD,
         wr   |-> [i \in DOMAIN m.wr |->
                    IF hit(i) THEN [m.wr[i] EXCEPT !.border = @ + 1]
                    ELSE m.wr[i]]]

\* writes per pixel so far, by the convolution pass and by the border pass
NoWrites(w, h) == [i \in PixelIdx(w, h) |-> [conv |-> 0, border |-> 0]]

Sobel(inD, outD, w, h, aliased) ==
    BorderPass(
        InteriorPass([inD |-> inD, outD |-> outD, wr |-> NoWrites(w, h)],
                     0, w, h, aliased),
        w, h, aliased)

-----------------------------------------------------------------------------
(* The rasters a host hands over: one colour, or one pixel of a second      *)
(* colour on a background                                                  *)

\* opaque black, and one colour at two alpha values
Palette ==
    { Pixel(0, 0, 0, 255), Pixel(200, 100, 50, 128), Pixel(200, 100, 50, 7) }

Dims == 1..MaxDim

Rasters(w, h, colours) ==
    { [i \in PixelIdx(w, h) |-> IF i = q THEN fg ELSE bg] :
        q \in PixelIdx(w, h), fg \in colours, bg \in colours }

\* a freshly allocated output buffer
Blank(w, h) == [i \in PixelIdx(w, h) |-> Pixel(0, 0, 0, 0)]

\* parameters the host passes
Angles      == {RInt(120), RInt(-90)}
Brightness  == {RInt(0), Rat(1, 4)}
Contrasts   == {RInt(0), Rat(1, 2), RInt(-1)}
Gammas      == {Rat(1, 2), RInt(1), RInt(2)}

NoRes == [kind |-> "none"]

-----------------------------------------------------------------------------
(* One kernel call on a frame *)

Init ==
    /\ width \in Dims
    /\ height \in Dims
    /\ frame \in Rasters(width, height, Palette)
    /\ imageData = frame
    /\ outputData = Blank(width, height)
    /\ writes = NoWrites(width, height)
    /\ past = << >>
    /\ op = "frame"
    /\ res = NoRes

InPlace(name, img) ==
    /\ imageData' = img
    /\ op' = name
    /\ UNCHANGED <<width, height, frame, outputData, writes, past, res>>

grayscale ==
    /\ op = "frame"
    /\ InPlace("grayscale", Grayscale(imageData))

hueRotate ==
    /\ op = "frame"
    /\ \E angleDegrees \in Angles :
           \E img \in HueRotations(imageData, angleDegrees) :
               InPlace("hueRotate", img)

brightnessContrast ==
    /\ op = "frame"
    /\ \E brightness \in Brightness, contrast \in Contrasts :
           InPlace("brightnessContrast",
                   BrightnessContrast(imageData, brightness, contrast))

gammaCorrection ==
    /\ op = "frame"
    /\ \E gamma \in Gammas :
           InPlace("gammaCorrection", GammaCorrection(imageData, gamma))

\* called as documented, with two distinct rasters
sobelEdgeDetection ==
    /\ op = "frame"
    /\ LET m == Sobel(imageData, outputData, width, height, FALSE)
       IN  /\ outputData' = m.outD
           /\ writes' = m.wr
    /\ op' = "sobelEdgeDetection"
    /\ UNCHANGED <<width, height, frame, imageData, past, res>>

\* called with outputData = inputData: one buffer
sobelAliased ==
    /\ op = "frame"
    /\ LET m == Sobel(imageData, imageData, width, height, TRUE)
       IN  /\ imageData' = m.outD
           /\ outputData' = m.outD
           /\ writes' = m.wr
    /\ op' = "sobelAliased"
    /\ UNCHANGED <<width, height, frame, past, res>>

Next ==
    \/ grayscale
    \/ hueRotate
    \/ brightnessContrast
    \/ gammaCorrection
    \/ sobelEdgeDetection
    \/ sobelAliased

Spec == Init /\ [][Next]_vars

-----------------------------------------------------------------------------
(* Properties of one kernel call (specification Spec) *)

Xs == 0..(width - 1)
Ys == 0..(height - 1)

OnEdge(x, y) == x \in {0, width - 1} \/ y \in {0, height - 1}
Inside(x, y) == 1 <= x /\ x < width - 1 /\ 1 <= y /\ y < height - 1

SameRGB(p, q) == p.r = q.r /\ p.g = q.g /\ p.b = q.b

\* C4: after sobelEdgeDetection every output pixel of the first or last
\* column or row is exactly (0, 0, 0, 255), whatever the input pixel was; a
\* raster narrower or lower than 3 is all (0, 0, 0, 255).
C4_SobelBorderOpaqueBlack ==
    op = "sobelEdgeDetection" =>
        /\ \A x \in Xs, y \in Ys :
              OnEdge(x, y) => outputData[Idx(x, y, width)] = Pixel(0, 0, 0, 255)
        /\ (width < 3 \/ height < 3) =>
              \A i \in PixelIdx(width, height) :
                  outputData[i] = Pixel(0, 0, 0, 255)

\* a 2x2 frame holding a pixel that is neither black nor opaque came out all
\* opaque black
C4_Witness ==
    /\ op = "sobelEdgeDetection"
    /\ width = 2 /\ height = 2
    /\ \E i \in PixelIdx(width, height) : frame[i].a # 255 /\ frame[i].r # 0
    /\ \A i \in PixelIdx(width, height) : outputData[i] = Pixel(0, 0, 0, 255)

\* C5: in sobelEdgeDetection every output pixel is written exactly once: an
\* interior pixel once by the convolution pass and never by the border
\* pass, every other pixel once by the border pass and never by the
\* convolution pass.
C5_SobelWritesEachPixelOnce ==
    op = "sobelEdgeDetection" =>
        \A x \in Xs, y \in Ys :
            writes[Idx(x, y, width)] =
                IF Inside(x, y) THEN [conv |-> 1, border |-> 0]
                ELSE [conv |-> 0, border |-> 1]

\* a call in which both passes wrote pixels
C5_Witness ==
    /\ op = "sobelEdgeDetection"
    /\ \E i \in PixelIdx(width, height) : writes[i].conv = 1
    /\ \E i \in PixelIdx(width, height) : writes[i].border = 1

TonalOps == {"grayscale", "hueRotate", "brightnessContrast", "gammaCorrection"}

\* C6 as claimed: grayscale, hueRotate, brightnessContrast, gammaCorrection
\* and sobelEdgeDetection leave the alpha of every pixel of the resulting
\* raster equal to the alpha of the input pixel at the same place.
C6_AlphaUntouched ==
    /\ op \in TonalOps =>
          \A i \in PixelIdx(width, height) : imageData[i].a = frame[i].a
    /\ op = "sobelEdgeDetection" =>
          \A i \in PixelIdx(width, height) : outputData[i].a = frame[i].a

\* C6 as amended: the four in-place filters leave every alpha as it was;
\* sobelEdgeDetection copies the alpha of every interior pixel and sets the
\* alpha of every border pixel to 255.
C6_AlphaUntouchedButSobelBorder ==
    /\ op \in TonalOps =>
          \A i \in PixelIdx(width, height) : imageData[i].a = frame[i].a
    /\ op = "sobelEdgeDetection" =>
          \A x \in Xs, y \in Ys :
              outputData[Idx(x, y, width)].a =
                  IF Inside(x, y) THEN frame[Idx(x, y, width)].a ELSE 255

\* sobelEdgeDetection ran on a frame with a translucent interior pixel and
\* a translucent border pixel of another alpha
C6_Witness ==
    /\ op = "sobelEdgeDetection"
    /\ \E x \in Xs, y \in Ys :
          Inside(x, y) /\ frame[Idx(x, y, width)].a = 7
    /\ \E x \in Xs, y \in Ys :
          ~Inside(x, y) /\ frame[Idx(x, y, width)].a = 128

\* what the documented call, with two distinct rasters, writes for the frame
ProperSobel == Sobel(frame, Blank(width, height), width, height, FALSE).outD

\* C7: when sobelEdgeDetection is called with outputData = inputData the
\* result is corrupted only through windows that read pixels already
\* overwritten: the border pixels, the first interior pixel (1, 1) and every
\* alpha are what the proper call writes, any other interior pixel may
\* differ (C7_Witness: it does for rasters 4 wide and 4 high or more).
C7_AliasingCorruptsLaterPixelsOnly ==
    op = "sobelAliased" =>
        \A proper \in {ProperSobel} :
            /\ \A x \in Xs, y \in Ys :
                  (~Inside(x, y) \/ (x = 1 /\ y = 1)) =>
                      imageData[Idx(x, y, width)] = proper[Idx(x, y, width)]
            /\ \A i \in PixelIdx(width, height) : imageData[i].a = proper[i].a

\* an aliased call on a raster at least 4 wide and 4 high whose result is
\* not what the proper call writes
C7_Witness ==
    /\ op = "sobelAliased"
    /\ width >= 4 /\ height >= 4
    /\ \E proper \in {ProperSobel} :
          \E i \in PixelIdx(width, height) : ~SameRGB(imageData[i], proper[i])

Uniform(img) == \A i, j \in DOMAIN img : SameRGB(img[i], img[j])

\* C9: for a frame whose pixels all have the same R, G, B,
\* sobelEdgeDetection writes R = G = B = 0 and the input alpha to every
\* interior output pixel.
C9_UniformFrameHasNoEdges ==
    (op = "sobelEdgeDetection" /\ Uniform(frame)) =>
        \A x \in Xs, y \in Ys :
            Inside(x, y) =>
                outputData[Idx(x, y, width)] =
                    Pixel(0, 0, 0, frame[Idx(x, y, width)].a)

\* a frame of one colour that is not black, with an interior pixel of its
\* own alpha
C9_Witness ==
    /\ op = "sobelEdgeDetection"
    /\ Uniform(frame)
    /\ \E x \in Xs, y \in Ys :
          /\ Inside(x, y)
          /\ frame[Idx(x, y, width)].r = 200
          /\ frame[Idx(x, y, width)].a = 7
          /\ frame[0].a = 128

-----------------------------------------------------------------------------
(* sampleBilinear *)

\* a double coordinate: NaN, or m thousandths of a pixel
NaN == [nan |-> TRUE, m |-> 0]
Co(m) == [nan |-> FALSE, m |-> m]

\* a < b on doubles: false when either is NaN
CLt(a, b) == ~a.nan /\ ~b.nan /\ a.m < b.m

\* std::min(a, b) is (b < a) ? b : a, std::max(a, b) is (a < b) ? b : a
CMin(a, b) == IF CLt(b, a) THEN b ELSE a
CMax(a, b) == IF CLt(a, b) THEN b ELSE a

\* std::max(0.0, std::min((double)size - 1.001, u))
clampCoord(u, size) == CMax(Co(0), CMin(Co(size * 1000 - 1001), u))

\* the last pixel index sampleBilinear can address
MaxRead(w, h) == (Max2(0, h - 2) + 1) * w + Max2(0, w - 2) + 1

\* the pixels behind the raster that sampleBilinear can address
PastIdx(w, h) == (w * h)..MaxRead(w, h)

\* the pixel at flat index i of srcData, or of the memory behind it
Mem(srcData, pst, i) == IF i \in DOMAIN srcData THEN srcData[i] ELSE pst[i]

\* one channel: the four corners weighted and cast to a byte
Blend(c1, c2, c3, c4, u_ratio, v_ratio) ==
    LET u_opposite == 1000 - u_ratio
        v_opposite == 1000 - v_ratio
    IN  ((c1 * u_opposite + c2 * u_ratio) * v_opposite
          + (c3 * u_opposite + c4 * u_ratio) * v_ratio) \div 1000000

\* px: the bytes written to r, g, b, a; reads: the four neighbours read;
\* ptrs: their flat pixel indexes ptr1 .. ptr4
sampleBilinear(srcData, pst, w, h, u0, v0) ==
    LET u  == clampCoord(u0, w)
        v  == clampCoord(v0, h)
        x  == u.m \div 1000
        y  == v.m \div 1000
        ur == u.m % 1000
        vr == v.m % 1000
        ptr1 == y * w + x
        ptr2 == ptr1 + 1
        ptr3 == ptr1 + w
        ptr4 == ptr3 + 1
        p1 == Mem(srcData, pst, ptr1)
        p2 == Mem(srcData, pst, ptr2)
        p3 == Mem(srcData, pst, ptr3)
        p4 == Mem(srcData, pst, ptr4)
    IN  [px    |-> Pixel(Blend(p1.r, p2.r, p3.r, p4.r, ur, vr),
                         Blend(p1.g, p2.g, p3.g, p4.g, ur, vr),
                         Blend(p1.b, p2.b, p3.b, p4.b, ur, vr),
                         Blend(p1.a, p2.a, p3.a, p4.a, ur, vr)),
         reads |-> {<<x, y>>, <<x + 1, y>>, <<x, y + 1>>, <<x + 1, y + 1>>},
         ptrs  |-> {ptr1, ptr2, ptr3, ptr4}]

-----------------------------------------------------------------------------
(* spiralDistortion and wormholeDistortion: inputData -> outputData         *)
(*                                                                         *)
(* The polar form is evaluated in Cartesian terms: with                    *)
(* angle = atan2(dy, dx) and radius = sqrt(dx*dx + dy*dy),                   *)
(*   radius * cos(angle + t) = dx * cos(t) - dy * sin(t)                   *)
(*   radius * sin(angle + t) = dx * sin(t) + dy * cos(t)                   *)
(* Lengths are in thousandths of a pixel, angles in thousandths of a       *)
(* radian; the rounding of the doubles lies below this resolution and is   *)
(* not modelled.                                                           *)

Scaled(k, f) == (k * f.n) \div f.d

\* radius / maxRadius in thousandths, for the pixel (x, y)
normalizedRadius(x, y, w, h) ==
    LET dx2 == 2 * x - w
        dy2 == 2 * y - h
        num == dx2 * dx2 + dy2 * dy2
    IN  IF num = 0 THEN 0
        ELSE ISqrt((1000000 * num) \div (w * w + h * h))

\* cos and sin of t/1000 in units of 10^-5, by their power series; the
\* angle spiralFactor * (radius / maxRadius) stays within 1 radian here
RECURSIVE Series(_, _, _, _, _)
Series(term, t2, k, last, acc) ==
    IF k > last THEN acc
    ELSE LET next == (0 - term * t2) \div (1000 * k * (k + 1))
         IN  Series(next, t2, k + 2, last, acc + next)

CosE5(t) == Series(100000, (t * t) \div 1000, 1, 15, 100000)
SinE5(t) == Series(100 * t, (t * t) \div 1000, 2, 16, 100 * t)

\* the coordinate centre + (a * ca + b * cb) with a, b in half pixels and
\* ca, cb in units of 10^-5
Around(size, a, ca, b, cb) == Co(500 * size + (a * ca + b * cb) \div 200)

spiralSource(x, y, w, h, spiralFactor) ==
    LET dx2 == 2 * x - w
        dy2 == 2 * y - h
        t   == Scaled(normalizedRadius(x, y, w, h), spiralFactor)
    IN  [u |-> Around(w, dx2, CosE5(t), 0 - dy2, SinE5(t)),
         v |-> Around(h, dx2, SinE5(t), dy2, CosE5(t))]

wormholeSource(x, y, w, h, pullFactor) ==
    LET pf  == RMax(RInt(0), RMin(Rat(99, 100), pullFactor))
        dx2 == 2 * x - w
        dy2 == 2 * y - h
        \* 1.0 - pullFactor * normalizedRadius, in units of 10^-5
        shrink == 100000 - 100 * Scaled(normalizedRadius(x, y, w, h), pf)
        keep   == Max2(0, shrink)
    IN  [u |-> Around(w, dx2, keep, 0, 0),
         v |-> Around(h, dy2, keep, 0, 0)]

\* the samples spiralDistortion takes, per output pixel
SpiralDistortion(inputData, pst, w, h, spiralFactor) ==
    [i \in PixelIdx(w, h) |->
        LET s == spiralSource(i % w, i \div w, w, h, spiralFactor)
        IN  sampleBilinear(inputData, pst, w, h, s.u, s.v)]

\* the samples wormholeDistortion takes, per output pixel
WormholeDistortion(inputData, pst, w, h, pullFactor) ==
    [i \in PixelIdx(w, h) |->
        LET s == wormholeSource(i % w, i \div w, w, h, pullFactor)
        IN  sampleBilinear(inputData, pst, w, h, s.u, s.v)]
-----------------------------------------------------------------------------
(* The sampler and the two remaps                                           *)

GeomDim == 3

GeomPalette == {Pixel(0, 0, 0, 255), Pixel(200, 100, 50, 128)}

\* what the memory behind a raster may hold
Garbage == {Pixel(0, 0, 0, 0), Pixel(255, 255, 255, 255)}

\* sample coordinates: the half-pixel grid from -0.5 to size, and NaN
Coords(size) == {NaN} \cup {Co(500 * k) : k \in (0 - 1)..(2 * size)}

PullFactors == {RInt(0), Rat(1, 2), RInt(2)}
SpiralFactors == {RInt(0), RInt(1), RInt(-1)}

InitGeom ==
    /\ width \in 1..GeomDim
    /\ height \in 1..GeomDim
    /\ frame \in Rasters(width, height, GeomPalette)
    /\ imageData = frame
    /\ outputData = Blank(width, height)
    /\ writes = NoWrites(width, height)
    /\ past \in [PastIdx(width, height) -> Garbage]
    /\ op = "frame"
    /\ res = NoRes

\* a read outside the buffer either yields what lies there or faults
Faults(ptrs) ==
    /\ \E i \in ptrs : i \notin DOMAIN imageData
    /\ op' = "fault"
    /\ res' = [kind |-> "fault"]
    /\ UNCHANGED <<width, height, frame, imageData, outputData, writes, past>>

sampleBilinearCall ==
    /\ op = "frame"
    /\ \E u \in Coords(width), v \in Coords(height) :
         \E s \in {sampleBilinear(imageData, past, width, height, u, v)} :
            \/ /\ op' = "sampleBilinear"
               /\ res' = [kind |-> "sample", u |-> u, v |-> v, px |-> s.px,
                          reads |-> s.reads, ptrs |-> s.ptrs]
               /\ UNCHANGED <<width, height, frame, imageData, outputData,
                              writes, past>>
            \/ Faults(s.ptrs)

Remap(name, factor, smp) ==
    \/ /\ outputData' = [i \in PixelIdx(width, height) |-> smp[i].px]
       /\ op' = name
       /\ res' = [kind |-> "remap", factor |-> factor,
                  reads |-> UNION {smp[i].reads : i \in DOMAIN smp},
                  ptrs |-> UNION {smp[i].ptrs : i \in DOMAIN smp}]
       /\ UNCHANGED <<width, height, frame, imageData, writes, past>>
    \/ Faults(UNION {smp[i].ptrs : i \in DOMAIN smp})

spiralDistortion ==
    /\ op = "frame"
    /\ \E spiralFactor \in SpiralFactors :
         \E smp \in {SpiralDistortion(imageData, past, width, height,
                                      spiralFactor)} :
            Remap("spiralDistortion", spiralFactor, smp)

wormholeDistortion ==
    /\ op = "frame"
    /\ \E pullFactor \in PullFactors :
         \E smp \in {WormholeDistortion(imageData, past, width, height,
                                        pullFactor)} :
            Remap("wormholeDistortion", pullFactor, smp)

NextGeom ==
    \/ sampleBilinearCall
    \/ spiralDistortion
    \/ wormholeDistortion

SpecGeom == InitGeom /\ [][NextGeom]_vars

\* C1: every sample, called directly or by a remap, reads only the four
\* neighbours (x', y') with 0 <= x' < width and 0 <= y' < height, all of
\* them inside the buffer, also when width = 1 or height = 1.
C1_SamplerReadsInBounds ==
    res.kind \in {"sample", "remap"} =>
        /\ \A p \in res.reads : p[1] \in Xs /\ p[2] \in Ys
        /\ res.ptrs \subseteq DOMAIN imageData

\* C2: sampling at integer coordinates inside the raster returns exactly
\* the pixel stored there, last column and last row included.
C2_IntegerSampleIsExact ==
    (/\ res.kind = "sample"
     /\ ~res.u.nan /\ ~res.v.nan
     /\ res.u.m % 1000 = 0 /\ res.v.m % 1000 = 0
     /\ res.u.m \div 1000 \in Xs /\ res.v.m \div 1000 \in Ys)
    => res.px = imageData[Idx(res.u.m \div 1000, res.v.m \div 1000, width)]

\* C3: a remap with factor 0 copies every pixel of the input to the output,
\* last row and last column included.
C3_ZeroFactorIsIdentity ==
    (res.kind = "remap" /\ res.factor = RInt(0)) => outputData = imageData

-----------------------------------------------------------------------------
(* grayscale applied repeatedly                                             *)

GrayDim == 2

\* channel values: the extremes and Levels evenly spread levels
Channels == {0, 1, 254, 255} \cup {k * (255 \div Levels) : k \in 1..Levels}

GrayColours == {Pixel(r, g, b, 128) : r \in Channels, g \in Channels, b \in Channels}

GrayRasters(w, h) ==
    { [i \in PixelIdx(w, h) |-> IF i = q THEN fg ELSE Pixel(0, 0, 0, 255)] :
        q \in PixelIdx(w, h), fg \in GrayColours }

InitGray ==
    /\ width \in 1..GrayDim
    /\ height \in 1..GrayDim
    /\ frame \in GrayRasters(width, height)
    /\ imageData = frame
    /\ outputData = Blank(width, height)
    /\ writes = NoWrites(width, height)
    /\ past = << >>
    /\ op = "frame"
    /\ res = NoRes

\* grayscale again, on the raster an earlier call left behind
grayscaleAgain ==
    /\ op \in {"frame", "grayscale"}
    /\ InPlace("grayscale", Grayscale(imageData))

NextGray == grayscaleAgain

SpecGray == InitGray /\ [][NextGray]_vars

\* C8: after one call every pixel has R = G = B, and a second call changes
\* nothing.
C8_GrayscaleIdempotent ==
    op = "grayscale" =>
        /\ \A i \in DOMAIN imageData :
              imageData[i].r = imageData[i].g /\ imageData[i].g = imageData[i].b
        /\ Grayscale(imageData) = imageData

-----------------------------------------------------------------------------
(* rgbToHsl followed by hslToRgb                                            *)

NoHsl == [h |-> RInt(0), s |-> RInt(0), l |-> RInt(0)]

InitColor ==
    /\ width = 0
    /\ height = 0
    /\ frame = << >>
    /\ imageData = << >>
    /\ outputData = << >>
    /\ writes = << >>
    /\ past = << >>
    /\ op = "frame"
    /\ res \in {[kind |-> "rgb", rgb |-> rgb, hsl |-> NoHsl, out |-> <<0, 0, 0>>] :
                  rgb \in Channels \X Channels \X Channels}

rgbToHslCall ==
    /\ res.kind = "rgb"
    /\ res' = [res EXCEPT !.kind = "hsl",
                          !.hsl = rgbToHsl(res.rgb[1], res.rgb[2], res.rgb[3])]
    /\ op' = "rgbToHsl"
    /\ UNCHANGED <<width, height, frame, imageData, outputData, writes, past>>

hslToRgbCall ==
    /\ res.kind = "hsl"
    /\ \E dn \in ErrDirs :
         res' = [res EXCEPT !.kind = "rgb2", !.out = hslToRgb(res.hsl, dn)]
    /\ op' = "hslToRgb"
    /\ UNCHANGED <<width, height, frame, imageData, outputData, writes, past>>

NextColor ==
    \/ rgbToHslCall
    \/ hslToRgbCall

SpecColor == InitColor /\ [][NextColor]_vars

\* C10: rgbToHsl returns h in [0, 360) and s, l in [0, 1], and hslToRgb of
\* its result is within 1 of the original colour on every channel.
C10_HslRoundTripWithinOne ==
    /\ res.kind \in {"hsl", "rgb2"} =>
          /\ ~RLt(res.hsl.h, RInt(0)) /\ RLt(res.hsl.h, RInt(360))
          /\ ~RLt(res.hsl.s, RInt(0)) /\ ~RLt(RInt(1), res.hsl.s)
          /\ ~RLt(res.hsl.l, RInt(0)) /\ ~RLt(RInt(1), res.hsl.l)
    /\ res.kind = "rgb2" =>
          \A c \in 1..3 : Abs(res.out[c] - res.rgb[c]) <= 1

\* a saturated colour came back one below on some channel
C10_Witness ==
    /\ res.kind = "rgb2"
    /\ res.rgb[1] # res.rgb[2] /\ res.rgb[2] # res.rgb[3]
    /\ RLt(RInt(0), res.hsl.h)
    /\ \E c \in 1..3 : res.out[c] = res.rgb[c] - 1

=============================================================================
